---- MODULE Spec2Model ----
(***************************************************************************)
(* State-machine model of the voice-agent session controller of            *)
(* src/app/page.tsx (component Home): the trigger / modality state         *)
(* machine, barge-in interruption, the playback-liveness flag, the two     *)
(* kinds of timers, the transcript cache and the rolling window of user    *)
(* utterances.                                                             *)
(*                                                                         *)
(* React semantics that the model keeps:                                   *)
(*  - agentState / isConnected / settings are useState cells; a UI entry   *)
(*    point (button handler) reads the values of the latest render;        *)
(*  - the transport_event handler is registered inside                     *)
(*    useEffect(..., [settings]) and therefore reads the agentState and    *)
(*    isConnected (and the interruptAgent closure) of the render in which  *)
(*    the effect last ran: these captured values are hAgentState and       *)
(*    hIsConnected;                                                        *)
(*  - isPlayingAudio and transcriptCache are useRef cells, always current; *)
(*  - setTimeout callbacks and the continuation of interruptAgent after    *)
(*    its await run as later, separate steps.                              *)
(***************************************************************************)
EXTENDS Integers, Sequences, FiniteSets, TLC

(* ---------------------------------------------------------------------- *)
(* Bounds                                                                  *)
(* ---------------------------------------------------------------------- *)
MaxSent == 6
MaxTimers == 2
MaxPendingInterrupts == 2
MaxWords == 2
MaxItems == 2
MaxQueued == 2

(* ---------------------------------------------------------------------- *)
(* Text: strings are sequences of characters                               *)
(* ---------------------------------------------------------------------- *)
LowerChar(c) == IF c = "G" THEN "g" ELSE IF c = "Q" THEN "q" ELSE c

\* a conversion that keeps the case
keepCase(s) == s

toLowerCase(s) == [k \in 1..Len(s) |-> LowerChar(s[k])]

\* a match on the first character of the phrase alone
includesFirstChar(s, p) ==
  Len(p) > 0 /\ \E k \in 1..Len(s) : s[k] = p[1]

includes(s, p) ==
  \E k \in 0..(Len(s) - Len(p)) : \A j \in 1..Len(p) : s[k + j] = p[j]

DEFAULT_SETTINGS ==
  [quickHintPhrase    |-> <<"g", "q">>,
   fullGuidancePhrase |-> <<"l", "t">>,
   interruptPhrases   |-> << <<"g", "i">> >>]

UpperSettings ==
  [quickHintPhrase    |-> <<"G", "Q">>,
   fullGuidancePhrase |-> <<"l", "t">>,
   interruptPhrases   |-> << <<"g", "i">> >>]

SettingsChoices == {DEFAULT_SETTINGS, UpperSettings}

\* the quick-hint field cleared by the user
EmptyFieldSettings ==
  [quickHintPhrase    |-> <<>>,
   fullGuidancePhrase |-> <<"l", "t">>,
   interruptPhrases   |-> << <<"g", "i">> >>]

PhraseChoices == {DEFAULT_SETTINGS, EmptyFieldSettings}

\* words of an utterance: "Good question", "let me think", "got it" and a word
\* of no phrase
Words == {<<"G", "q">>, <<"l", "t">>, <<"g", "i">>, <<"x">>}

\* the utterances "stop" and "thanks"
ShortUtterances == {<<"s">>, <<"h">>}

RECURSIVE Utterances(_)
Utterances(n) ==
  IF n = 0 THEN {<<>>}
  ELSE Utterances(n - 1) \cup {u \o w : u \in Utterances(n - 1), w \in Words}

Transcripts == Utterances(MaxWords) \cup ShortUtterances

(* ---------------------------------------------------------------------- *)
(* Outbound commands (transport.sendEvent)                                 *)
(* ---------------------------------------------------------------------- *)
SetAudio == "session.update[audio]"
SetText == "session.update[text]"
Configure == "session.update[config]"
CancelResponse == "response.cancel"
CreateQuick == "response.create[quick hint]"
CreateFull == "response.create[full guidance]"

IsCreate(c) == c \in {CreateQuick, CreateFull}

ItemIds == {"item1", "item2"}
NoTranscript == <<>>
OutputTranscripts == {<<>>, <<"x">>, <<"t">>}

\* the items of a history_updated event: a message of a role whose content
\* resolves to the text `text` (empty: no transcript yet)
\* an item of the session history with its content: item.itemId, item.role,
\* content.type and the text the content carries (content.transcript of an
\* audio content, content.text of a text content; <<>> when it carries none).
\* The ids of ItemIds are those of assistant audio items, the only ones a
\* response.output_audio_transcript.done event names.
UserItems ==
  [itemId : {"user1"}, role : {"user"}, type : {"input_audio"},
   transcript : {<<>>, <<"x">>, <<"t">>}]

AudioItems ==
  [itemId : ItemIds, role : {"assistant"}, type : {"output_audio"},
   transcript : {<<>>, <<"t">>}]

TextItems ==
  [itemId : {"text1"}, role : {"assistant"}, type : {"output_text"},
   transcript : {<<>>, <<"t">>}]

HistoryItems == UserItems \cup {i \in AudioItems : i.itemId = "item1"}

\* a user turn with its transcript, audio turns with and without one, and a
\* text turn without text
DisplayItems ==
  {i \in UserItems : i.transcript = <<"t">>}
    \cup {i \in AudioItems : i.itemId = "item1" \/ i.transcript = <<>>}
    \cup {i \in TextItems : i.transcript = <<>>}

\* the histories of at most n items: an item identifier names one item
RECURSIVE HistoriesOf(_, _)
HistoriesOf(items, n) ==
  IF n = 0 THEN {<<>>}
  ELSE LET shorter == HistoriesOf(items, n - 1)
       IN shorter \cup
          UNION {{Append(h, i) :
                    i \in {j \in items : \A k \in 1..Len(h) : h[k].itemId # j.itemId}} :
                 h \in shorter}

Histories(n) == HistoriesOf(HistoryItems, n)

\* [...prev, text].slice(-10)
HistoryWindow == 10

\* event.delta of response.output_audio.delta: base64 text, "" when empty
AudioData == {"", "AAA="}

ErrorCodes == {"input_audio_buffer_commit_empty", "response_cancel_not_active", "other"}

VARIABLES
  agentState,       \* useState<AgentState>
  isConnected,      \* useState(false)
  isPlayingAudio,   \* useRef(false)
  settings,         \* useState(DEFAULT_SETTINGS)
  events,           \* useState<TransportEvent[]>: the newest element of the list
  transcriptCache,  \* useRef(new Map()): item id -> transcript, <<>> = no entry
  conversationHistory, \* useState<string[]>([]): the recent user utterances
  hAgentState,      \* agentState captured by the registered transport_event handler
  hIsConnected,     \* isConnected captured by the registered transport_event handler
  timers,           \* pending setTimeout callbacks, in scheduling order
  interrupting,     \* interruptAgent calls suspended at `await player.interrupt()`
  sent,             \* commands handed to transport.sendEvent, in order
  resp,             \* the remote side's response for this session
  player,           \* useRef<WavStreamPlayer>: audio fragments queued for playback
  transcripts       \* useState<TranscriptItem[]>: the displayed transcript list

vars == <<agentState, isConnected, isPlayingAudio, settings, events,
          transcriptCache, conversationHistory, hAgentState, hIsConnected, timers, interrupting,
          sent, resp, player, transcripts>>

\* everything a handler body may write; `events` is written by the handler prologue
core == <<agentState, isConnected, isPlayingAudio, settings, transcriptCache, conversationHistory,
          hAgentState, hIsConnected, timers, interrupting, sent, resp, player,
          transcripts>>

AgentStates == {"idle", "listening", "generating", "speaking"}

RespStates == {"none", "requested", "created", "streaming", "cancelledEarly", "cancelled"}

Busy(s) == s = "generating" \/ s = "speaking"

\* the newest element of `events`, as the event log renders it: its type
NoEvent == ""

(* ---------------------------------------------------------------------- *)
(* Remote side: what a command does to the response in flight              *)
(* ---------------------------------------------------------------------- *)
RespAfter(r, c) ==
  IF IsCreate(c) THEN (IF r = "none" THEN "requested" ELSE r)
  ELSE IF c = CancelResponse
       THEN (IF r = "requested" THEN "cancelledEarly"
             ELSE IF r \in {"created", "streaming"} THEN "cancelled"
             ELSE r)
       ELSE r

RECURSIVE RespAfterAll(_, _)
RespAfterAll(r, cs) ==
  IF cs = <<>> THEN r ELSE RespAfterAll(RespAfter(r, Head(cs)), Tail(cs))

CanSend(cs) == Len(sent) + Len(cs) <= MaxSent

\* transport.sendEvent of the commands cs, the remote response being r before
sendEvent(cs, r) ==
  /\ sent' = sent \o cs
  /\ resp' = IF isConnected THEN RespAfterAll(r, cs) ELSE r

Init ==
  /\ agentState = "idle"
  /\ isConnected = FALSE
  /\ isPlayingAudio = FALSE
  /\ settings = DEFAULT_SETTINGS
  /\ events = NoEvent
  /\ transcriptCache = [i \in ItemIds |-> NoTranscript]
  /\ conversationHistory = <<>>
  /\ hAgentState = "idle"
  /\ hIsConnected = FALSE
  /\ timers = <<>>
  /\ interrupting = 0
  /\ sent = <<>>
  /\ resp = "none"
  /\ player = 0
  /\ transcripts = <<>>

(* ---------------------------------------------------------------------- *)
(* Timers                                                                  *)
(* ---------------------------------------------------------------------- *)
CreateTimer(c) == [kind |-> "create", cmd |-> c]
GraceTimer == [kind |-> "grace", cmd |-> SetText]

RemoveAt(q, i) == [k \in 1..(Len(q) - 1) |-> IF k < i THEN q[k] ELSE q[k + 1]]

\* a 100 ms timer fires before every timer scheduled after it; a 5000 ms
\* timer fires after every timer scheduled before it
Eligible(i) ==
  IF timers[i].kind = "create"
  THEN \A k \in 1..(i - 1) : timers[k].kind # "create"
  ELSE i = 1

(* ---------------------------------------------------------------------- *)
(* interruptAgent, as seen by a caller whose closure holds the mode as     *)
(* and the connection status conn: the part before the await               *)
(* ---------------------------------------------------------------------- *)
\* the guard of lines 700-701, for a caller that reads mode as, connection
\* status conn and liveness flag playing
InterruptAccepts(as, conn, playing) == conn /\ (playing \/ Busy(as))

\* interruptAgent without its setAgentState('listening')
interruptAgentKeepsMode(as, conn) ==
  IF ~InterruptAccepts(as, conn, isPlayingAudio)
  THEN UNCHANGED core
  ELSE /\ interrupting < MaxPendingInterrupts
       /\ isPlayingAudio' = FALSE
       /\ interrupting' = interrupting + 1
       /\ UNCHANGED <<agentState, isConnected, settings, transcriptCache, conversationHistory,
                      hAgentState, hIsConnected, timers, sent, resp, player, transcripts>>

interruptAgent(as, conn) ==
  IF ~InterruptAccepts(as, conn, isPlayingAudio)
  THEN UNCHANGED core
  ELSE /\ interrupting < MaxPendingInterrupts
       /\ isPlayingAudio' = FALSE
       /\ agentState' = "listening"
       /\ interrupting' = interrupting + 1
       /\ UNCHANGED <<isConnected, settings, transcriptCache, conversationHistory, hAgentState,
                      hIsConnected, timers, sent, resp, player, transcripts>>

\* player.interrupt() of the playback library: the queue is dropped when the
\* call succeeds and kept when it rejects
playerInterrupt(ok) == IF ok THEN 0 ELSE player

\* a continuation that sends the two commands in the other order
InterruptResumeTextFirst ==
  /\ interrupting > 0
  /\ CanSend(<<SetText, CancelResponse>>)
  /\ interrupting' = interrupting - 1
  /\ \E ok \in BOOLEAN : player' = playerInterrupt(ok)
  /\ sendEvent(<<SetText, CancelResponse>>, resp)
  /\ UNCHANGED <<agentState, isConnected, isPlayingAudio, settings, events,
                 transcriptCache, conversationHistory, hAgentState, hIsConnected, timers,
                 transcripts>>

\* a continuation without the try/catch: a rejected player.interrupt() ends
\* interruptAgent before it sends anything
InterruptResumeThrows ==
  /\ interrupting > 0
  /\ interrupting' = interrupting - 1
  /\ \E ok \in BOOLEAN :
       /\ player' = playerInterrupt(ok)
       /\ IF ok
          THEN CanSend(<<CancelResponse, SetText>>)
               /\ sendEvent(<<CancelResponse, SetText>>, resp)
          ELSE UNCHANGED <<sent, resp>>
  /\ UNCHANGED <<agentState, isConnected, isPlayingAudio, settings, events,
                 transcriptCache, conversationHistory, hAgentState, hIsConnected, timers,
                 transcripts>>

\* the part after `await player.current.interrupt()`: the rejection is caught
\* and logged, and the two commands are sent either way
InterruptResume ==
  /\ interrupting > 0
  /\ CanSend(<<CancelResponse, SetText>>)
  /\ interrupting' = interrupting - 1
  /\ \E ok \in BOOLEAN : player' = playerInterrupt(ok)
  /\ sendEvent(<<CancelResponse, SetText>>, resp)
  /\ UNCHANGED <<agentState, isConnected, isPlayingAudio, settings, events,
                 transcriptCache, conversationHistory, hAgentState, hIsConnected, timers,
                 transcripts>>

(* ---------------------------------------------------------------------- *)
(* UI entry points (closures of the latest render)                         *)
(* ---------------------------------------------------------------------- *)
\* a trigger entry point without the connection test of its guard
ManualTriggerUnguarded(c) ==
  /\ UNCHANGED events
  /\ IF Busy(agentState)
     THEN UNCHANGED core
     ELSE /\ CanSend(<<SetAudio>>)
          /\ Len(timers) < MaxTimers
          /\ agentState' = "generating"
          /\ sendEvent(<<SetAudio>>, resp)
          /\ timers' = Append(timers, CreateTimer(c))
          /\ UNCHANGED <<isConnected, isPlayingAudio, settings,
                         transcriptCache, conversationHistory, hAgentState, hIsConnected,
                         interrupting, player, transcripts>>

ManualTrigger(c) ==
  /\ UNCHANGED events
  /\ IF ~isConnected \/ Busy(agentState)
     THEN UNCHANGED core
     ELSE /\ CanSend(<<SetAudio>>)
          /\ Len(timers) < MaxTimers
          /\ agentState' = "generating"
          /\ sendEvent(<<SetAudio>>, resp)
          /\ timers' = Append(timers, CreateTimer(c))
          /\ UNCHANGED <<isConnected, isPlayingAudio, settings,
                         transcriptCache, conversationHistory, hAgentState, hIsConnected,
                         interrupting, player, transcripts>>

triggerQuickHint == ManualTrigger(CreateQuick)

triggerFullGuidance == ManualTrigger(CreateFull)

InterruptButton ==
  /\ UNCHANGED events
  /\ interruptAgent(agentState, isConnected)

\* connect(), connecting branch: session.connect() is awaited, the
\* session.created event (the first event of a connection) is handled and
\* answered with the session configuration, then setIsConnected(true).
\* The awaited round trips (token, socket, microphone) outlast a 100 ms timer.
Connect ==
  /\ ~isConnected
  /\ \A k \in 1..Len(timers) : timers[k].kind # "create"
  /\ CanSend(<<Configure>>)
  /\ isConnected' = TRUE
  /\ events' = "session.created"
  /\ sent' = sent \o <<Configure>>
  /\ resp' = "none"
  /\ UNCHANGED <<agentState, isPlayingAudio, settings, transcriptCache, conversationHistory,
                 hAgentState, hIsConnected, timers, interrupting, player, transcripts>>

\* connect(), disconnecting branch
Disconnect ==
  /\ isConnected
  /\ isConnected' = FALSE
  /\ resp' = "none"
  /\ player' = playerInterrupt(TRUE)
  /\ UNCHANGED <<agentState, isPlayingAudio, settings, events,
                 transcriptCache, conversationHistory, hAgentState, hIsConnected, timers,
                 interrupting, sent, transcripts>>

\* a settings input that is not disabled while connected
SettingsChangeAnytime(s) ==
  /\ s # settings
  /\ settings' = s
  /\ hAgentState' = agentState
  /\ hIsConnected' = isConnected
  /\ UNCHANGED <<agentState, isConnected, isPlayingAudio, events,
                 transcriptCache, conversationHistory, timers, interrupting, sent, resp,
                 player, transcripts>>

\* SettingsPanel inputs are disabled while connected; a change of settings
\* re-runs the effect, which registers a handler closing over this render
SettingsChange(s) ==
  /\ ~isConnected
  /\ s # settings
  /\ settings' = s
  /\ hAgentState' = agentState
  /\ hIsConnected' = isConnected
  /\ UNCHANGED <<agentState, isConnected, isPlayingAudio, events,
                 transcriptCache, conversationHistory, timers, interrupting, sent, resp,
                 player, transcripts>>

(* ---------------------------------------------------------------------- *)
(* Timer callbacks                                                         *)
(* ---------------------------------------------------------------------- *)
DeferredCreate ==
  \E i \in 1..Len(timers) :
    /\ timers[i].kind = "create"
    /\ Eligible(i)
    /\ CanSend(<<timers[i].cmd>>)
    /\ sendEvent(<<timers[i].cmd>>, resp)
    /\ timers' = RemoveAt(timers, i)
    /\ UNCHANGED <<agentState, isConnected, isPlayingAudio, settings, events,
                   transcriptCache, conversationHistory, hAgentState, hIsConnected, interrupting,
                   player, transcripts>>

\* a grace callback that clears the flag and leaves the mode alone
GraceExpiredKeepsMode ==
  \E i \in 1..Len(timers) :
    /\ timers[i].kind = "grace"
    /\ Eligible(i)
    /\ isPlayingAudio' = FALSE
    /\ timers' = RemoveAt(timers, i)
    /\ UNCHANGED <<agentState, isConnected, settings, events, transcriptCache,
                   conversationHistory, hAgentState, hIsConnected, interrupting, sent, resp,
                   player, transcripts>>

GraceExpired ==
  \E i \in 1..Len(timers) :
    /\ timers[i].kind = "grace"
    /\ Eligible(i)
    /\ isPlayingAudio' = FALSE
    /\ agentState' = IF agentState = "speaking" THEN "listening" ELSE agentState
    /\ timers' = RemoveAt(timers, i)
    /\ UNCHANGED <<isConnected, settings, events, transcriptCache, conversationHistory,
                   hAgentState, hIsConnected, interrupting, sent, resp, player, transcripts>>

(* ---------------------------------------------------------------------- *)
(* transport_event handler (closure of the render in which the effect ran) *)
(* An event is delivered only while the session is connected, and the      *)
(* response lifecycle events only for a response the remote side has.      *)
(* ---------------------------------------------------------------------- *)
\* setEvents((prev) => [...prev, event])
Received(ev) ==
  /\ isConnected
  /\ events' = ev

\* an error event that resets the mode unless its code is an expected one
ErrorEventResets(code) ==
  /\ Received("error")
  /\ agentState' = IF code = "other" THEN "idle" ELSE agentState
  /\ UNCHANGED <<isConnected, isPlayingAudio, settings, transcriptCache,
                 conversationHistory, hAgentState, hIsConnected, timers,
                 interrupting, sent, resp, player, transcripts>>

ErrorEvent(code) ==
  /\ Received("error")
  /\ UNCHANGED core

BargeInTest == isPlayingAudio \/ hAgentState = "speaking" \/ hAgentState = "generating"

SpeechStarted ==
  /\ Received("input_audio_buffer.speech_started")
  /\ IF BargeInTest
     THEN interruptAgent(hAgentState, hIsConnected)
     ELSE UNCHANGED core

interruptDetected(textLower) ==
  \E k \in 1..Len(settings.interruptPhrases) :
    includes(textLower, toLowerCase(settings.interruptPhrases[k]))

quickHintDetected(textLower) ==
  includes(textLower, toLowerCase(settings.quickHintPhrase))

fullGuidanceDetected(textLower) ==
  includes(textLower, toLowerCase(settings.fullGuidancePhrase))

\* the voice-trigger branch: setAgentState('generating'), session.update to
\* audio, setTimeout(response.create, 100)
VoiceTrigger(textLower) ==
  /\ CanSend(<<SetAudio>>)
  /\ Len(timers) < MaxTimers
  /\ agentState' = "generating"
  /\ sendEvent(<<SetAudio>>, resp)
  /\ timers' = Append(timers,
        CreateTimer(IF quickHintDetected(textLower) THEN CreateQuick ELSE CreateFull))
  /\ UNCHANGED <<isConnected, isPlayingAudio, settings, transcriptCache, conversationHistory,
                 hAgentState, hIsConnected, interrupting, player, transcripts>>

TranscriptionCompleted(transcript) ==
  /\ Received("conversation.item.input_audio_transcription.completed")
  /\ IF transcript = <<>>
     THEN UNCHANGED core
     ELSE LET textLower == toLowerCase(transcript) IN
          IF interruptDetected(textLower) /\ Busy(hAgentState)
          THEN interruptAgent(hAgentState, hIsConnected)
          ELSE IF quickHintDetected(textLower) \/ fullGuidanceDetected(textLower)
               THEN IF Busy(hAgentState)
                    THEN UNCHANGED core
                    ELSE VoiceTrigger(textLower)
               ELSE UNCHANGED core

ResponseCreated ==
  /\ Received("response.created")
  /\ resp \in {"requested", "cancelledEarly"}
  /\ resp' = IF resp = "requested" THEN "created" ELSE "cancelled"
  /\ agentState' = "generating"
  /\ UNCHANGED <<isConnected, isPlayingAudio, settings, transcriptCache, conversationHistory,
                 hAgentState, hIsConnected, timers, interrupting, sent, player, transcripts>>

\* the audio branch without `isPlayingAudio.current = true`
AudioDeltaWithoutFlag(audioData) ==
  /\ Received("response.output_audio.delta")
  /\ resp \in {"created", "streaming", "cancelled"}
  /\ resp' = IF resp = "cancelled" THEN "cancelled" ELSE "streaming"
  /\ agentState' = "speaking"
  /\ IF audioData # ""
     THEN player < MaxQueued /\ player' = player + 1
     ELSE player' = player
  /\ UNCHANGED <<isConnected, isPlayingAudio, settings, transcriptCache, conversationHistory,
                 hAgentState, hIsConnected, timers, interrupting, sent, transcripts>>

AudioDelta(audioData) ==
  /\ Received("response.output_audio.delta")
  /\ resp \in {"created", "streaming", "cancelled"}
  /\ resp' = IF resp = "cancelled" THEN "cancelled" ELSE "streaming"
  /\ agentState' = "speaking"
  /\ isPlayingAudio' = TRUE
  /\ IF audioData # ""
     THEN player < MaxQueued /\ player' = player + 1
     ELSE player' = player
  /\ UNCHANGED <<isConnected, settings, transcriptCache, conversationHistory, hAgentState,
                 hIsConnected, timers, interrupting, sent, transcripts>>

\* the cache written without the test of `transcript`
CacheUpdateUnguarded(cache, itemId, transcript) ==
  IF itemId # ""
  THEN [cache EXCEPT ![itemId] = transcript]
  ELSE cache

\* the cache written only where it has no entry yet
CacheUpdateKeepsFirst(cache, itemId, transcript) ==
  IF itemId # "" /\ cache[itemId] = NoTranscript
  THEN [cache EXCEPT ![itemId] = transcript]
  ELSE cache

\* transcriptCache.current.set(itemId, transcript) under `itemId && transcript`
CacheUpdate(cache, itemId, transcript) ==
  IF itemId # "" /\ transcript # <<>>
  THEN [cache EXCEPT ![itemId] = transcript]
  ELSE cache

OutputTranscriptDone(itemId, transcript) ==
  /\ Received("response.output_audio_transcript.done")
  /\ transcriptCache' = CacheUpdate(transcriptCache, itemId, transcript)
  /\ UNCHANGED <<agentState, isConnected, isPlayingAudio, settings,
                 conversationHistory, hAgentState, hIsConnected, timers,
                 interrupting, sent, resp, player, transcripts>>

ResponseDone ==
  /\ Received("response.done")
  /\ resp \in {"created", "streaming", "cancelled"}
  /\ CanSend(<<SetText>>)
  /\ Len(timers) < MaxTimers
  /\ sendEvent(<<SetText>>, "none")
  /\ timers' = Append(timers, GraceTimer)
  /\ UNCHANGED <<agentState, isConnected, isPlayingAudio, settings,
                 transcriptCache, conversationHistory, hAgentState, hIsConnected, interrupting,
                 player, transcripts>>

\* session.on('history_updated'): every user item with a text is appended to
\* the window, which keeps its last HistoryWindow entries
slice(q, n) ==
  IF Len(q) <= n THEN q ELSE SubSeq(q, Len(q) - n + 1, Len(q))

\* a window that, once full, drops its two oldest entries for the new one
appendDroppingTwo(prev, text) ==
  IF Len(prev) < HistoryWindow THEN Append(prev, text)
  ELSE Append(Tail(Tail(prev)), text)

setConversationHistory(prev, text) == slice(Append(prev, text), HistoryWindow)

\* a text resolved from what the item carries alone
textOfContent(item, cache) == item.transcript

\* the text of a content: content.text, content.transcript || '', or for
\* output_audio content.transcript || transcriptCache.get(item.itemId) || ''
textOf(item, cache) ==
  IF item.type \in {"input_text", "output_text", "input_audio"}
  THEN item.transcript
  ELSE IF item.type = "output_audio"
       THEN IF item.transcript # <<>> THEN item.transcript
            ELSE IF item.itemId \in DOMAIN cache THEN cache[item.itemId]
                 ELSE <<>>
       ELSE <<>>

\* history.forEach, the writes of the rolling window
RECURSIVE historyForEach(_, _, _)
historyForEach(prev, history, cache) ==
  IF history = <<>> THEN prev
  ELSE LET item == Head(history)
           text == textOf(item, cache)
       IN historyForEach(
            IF text # <<>> /\ item.role = "user"
            THEN setConversationHistory(prev, text)
            ELSE prev,
            Tail(history), cache)

\* history.forEach, the pushes to newTranscripts
RECURSIVE newTranscripts(_, _)
newTranscripts(history, cache) ==
  IF history = <<>> THEN <<>>
  ELSE LET item == Head(history)
           text == textOf(item, cache)
       IN (IF text # <<>>
           THEN <<[id |-> item.itemId,
                   role |-> IF item.role = "user" THEN "user" ELSE "assistant",
                   text |-> text]>>
           ELSE <<>>)
          \o newTranscripts(Tail(history), cache)

HistoryUpdated(history) ==
  /\ isConnected
  /\ conversationHistory' = historyForEach(conversationHistory, history, transcriptCache)
  /\ transcripts' = newTranscripts(history, transcriptCache)
  /\ UNCHANGED <<agentState, isConnected, isPlayingAudio, settings, events,
                 transcriptCache, hAgentState, hIsConnected, timers,
                 interrupting, sent, resp, player>>

\* session.on('error'): logs, or returns at once for the two expected codes
SessionError(code) == UNCHANGED vars

\* the conversation context a command carries in its payload: response.create
\* is sent as { instructions }, a text fixed by the kind of the trigger
ContextOf(c) == <<>>

(* ---------------------------------------------------------------------- *)
(* Specification                                                           *)
(* ---------------------------------------------------------------------- *)
\* the modality coordinator, the interrupt controller and the liveness tracker
CoordinatorNext ==
  \/ Connect
  \/ Disconnect
  \/ \E s \in SettingsChoices : SettingsChange(s)
  \/ triggerQuickHint
  \/ triggerFullGuidance
  \/ InterruptButton
  \/ InterruptResume
  \/ DeferredCreate
  \/ GraceExpired
  \/ \E code \in ErrorCodes : ErrorEvent(code)
  \/ \E code \in ErrorCodes : SessionError(code)
  \/ SpeechStarted
  \/ \E t \in Transcripts : TranscriptionCompleted(t)
  \/ ResponseCreated
  \/ \E audioData \in AudioData : AudioDelta(audioData)
  \/ ResponseDone

\* the transcript cache: written by one handler, which writes nothing else but
\* `events`, and read by no action of the coordinator
CacheNext ==
  \/ Connect
  \/ Disconnect
  \/ \E id \in ItemIds \cup {""}, t \in OutputTranscripts : OutputTranscriptDone(id, t)

\* the rolling window of recent user utterances
HistoryNext ==
  \/ Connect
  \/ Disconnect
  \/ \E h \in Histories(MaxItems) \ {<<>>} : HistoryUpdated(h)

\* the rolling window and the triggers whose response would use it
ContextNext ==
  \/ Connect
  \/ \E i \in UserItems : HistoryUpdated(<<i>>)
  \/ triggerQuickHint
  \/ triggerFullGuidance
  \/ \E t \in Transcripts : TranscriptionCompleted(t)
  \/ DeferredCreate

\* the displayed transcript list: history updates resolved against the cache
DisplayNext ==
  \/ Connect
  \/ Disconnect
  \/ \E id \in ItemIds \cup {""}, t \in OutputTranscripts : OutputTranscriptDone(id, t)
  \/ \E h \in HistoriesOf(DisplayItems, MaxItems) \ {<<>>} : HistoryUpdated(h)

\* trigger detection under settings with a cleared field
PhraseNext ==
  \/ Connect
  \/ Disconnect
  \/ \E s \in PhraseChoices : SettingsChange(s)
  \/ \E t \in Transcripts : TranscriptionCompleted(t)
  \/ DeferredCreate

Next == CoordinatorNext \/ PhraseNext \/ CacheNext \/ HistoryNext \/ ContextNext \/ DisplayNext

Spec == Init /\ [][Next]_vars

CoordinatorSpec == Init /\ [][CoordinatorNext]_vars

CacheSpec == Init /\ [][CacheNext]_vars

SessionSpec == Init /\ [][CoordinatorNext \/ CacheNext]_vars

HistorySpec == Init /\ [][HistoryNext]_vars

PhraseSpec == Init /\ [][PhraseNext]_vars

DisplaySpec == Init /\ [][DisplayNext]_vars

ContextSpec == Init /\ [][ContextNext]_vars

TypeOK ==
  /\ agentState \in AgentStates
  /\ hAgentState \in AgentStates
  /\ isConnected \in BOOLEAN
  /\ hIsConnected \in BOOLEAN
  /\ isPlayingAudio \in BOOLEAN
  /\ settings \in SettingsChoices \cup PhraseChoices
  /\ resp \in RespStates
  /\ interrupting \in 0..MaxPendingInterrupts
  /\ Len(sent) <= MaxSent
  /\ Len(timers) <= MaxTimers
  /\ player \in 0..MaxQueued
  /\ Len(transcripts) <= MaxItems

(* ---------------------------------------------------------------------- *)
(* Properties                                                              *)
(* ---------------------------------------------------------------------- *)
\* the step emits command c
Emitted(c) ==
  \E k \in (Len(sent) + 1)..Len(sent') : sent'[k] = c

Count(q, P(_)) == Cardinality({k \in 1..Len(q) : P(q[k])})

IsSetAudio(c) == c = SetAudio

IsCreateTimer(t) == t.kind = "create"

IsGraceTimer(t) == t.kind = "grace"

\* utterances of the characters x, g, i, s, h only: they contain no trigger
\* phrase of any configuration
PlainTranscripts ==
  {t \in Transcripts :
     t # <<>> /\ \A k \in 1..Len(t) : t[k] \in {"x", "g", "i", "s", "h"}}

\* utterances that contain a trigger phrase and no interrupt phrase
TriggerTranscripts ==
  {t \in Transcripts :
     /\ quickHintDetected(toLowerCase(t)) \/ fullGuidanceDetected(toLowerCase(t))
     /\ ~interruptDetected(toLowerCase(t))}

\* C1: every create-response command is emitted directly after the
\* set-output-modality(audio) command of its trigger: no command of another
\* transition stands between the two.
C1_CreateDirectlyAfterAudio ==
  \A k \in 1..Len(sent) :
    IsCreate(sent[k]) => (k > 1 /\ sent[k - 1] = SetAudio)

\* C2: between two entries into generating (two set-output-modality(audio)
\* commands), and after the last one, at most one set-output-modality(text)
\* command is emitted.
C2_OneTextPerEntry ==
  \A i, j \in 1..Len(sent) :
    (i < j /\ sent[i] = SetText /\ sent[j] = SetText)
      => \E k \in (i + 1)..(j - 1) : sent[k] = SetAudio

\* C3: when the grace timer of a finished response fires, with nothing emitted
\* since the set-output-modality(text) that ended the response and nothing
\* else in flight, the mode is no longer generating or speaking.
C3_FinishedResponseReturnsToListening ==
  [][(/\ GraceExpired
      /\ Len(timers) = 1
      /\ interrupting = 0
      /\ resp = "none"
      /\ sent # <<>>
      /\ sent[Len(sent)] = SetText)
     => ~Busy(agentState')]_vars

\* C4: after a call of interrupt() that acted, the guard rejects a second call
\* (made from the render that follows the first), and a rejected call changes
\* no state and emits no command.
C4_SecondInterruptIsNoOp ==
  [][/\ (InterruptButton /\ interrupting' = interrupting + 1)
          => ~InterruptAccepts(agentState', isConnected', isPlayingAudio')
     /\ (InterruptButton /\ ~InterruptAccepts(agentState, isConnected, isPlayingAudio))
          => UNCHANGED vars
    ]_vars

C4_Witness ==
  /\ isConnected
  /\ interrupting > 0
  /\ agentState = "listening"
  /\ ~isPlayingAudio
  /\ \E k \in 1..Len(sent) : IsCreate(sent[k])

\* C5: while the mode is generating or speaking, a manual trigger or a
\* transcript with a trigger phrase changes neither the mode nor the emitted
\* commands nor the scheduled timers.
C5_TriggerIgnoredWhileBusy ==
  [][(/\ Busy(agentState)
      /\ \/ triggerQuickHint
         \/ triggerFullGuidance
         \/ \E t \in TriggerTranscripts : TranscriptionCompleted(t))
     => (agentState' = agentState /\ sent' = sent /\ timers' = timers)]_vars

\* C6: between two create-response commands there is a response-finished
\* (its set-output-modality(text)), an interrupt (its cancel-response) or a
\* new connection.
C6_OneResponseInFlight ==
  \A i, j \in 1..Len(sent) :
    (i < j /\ IsCreate(sent[i]) /\ IsCreate(sent[j]))
      => \E k \in (i + 1)..(j - 1) : sent[k] \in {SetText, CancelResponse, Configure}

\* C7: a speech-start event handled while the mode is generating or speaking
\* sets the mode to listening, clears the liveness flag and emits
\* cancel-response and set-output-modality(text) in that step.
C7_BargeInSameStep ==
  [][(SpeechStarted /\ Busy(agentState))
     => (/\ agentState' = "listening"
         /\ ~isPlayingAudio'
         /\ sent' = sent \o <<CancelResponse, SetText>>)]_vars

\* C8: a deferred create-response step that runs when the mode is no longer
\* generating emits nothing.
C8_DeferredCreateDropped ==
  [][(DeferredCreate /\ agentState # "generating") => sent' = sent]_vars

\* C9: set-output-modality(audio) is emitted only by an accepted trigger,
\* create-response only by the deferred step such a trigger scheduled, and a
\* transcript without a trigger phrase changes nothing but the event log.
C9_NoResponseUnlessTriggered ==
  [][/\ \A t \in PlainTranscripts : TranscriptionCompleted(t) => UNCHANGED core
     /\ Emitted(SetAudio) =>
          \/ triggerQuickHint
          \/ triggerFullGuidance
          \/ \E t \in Transcripts \ PlainTranscripts : TranscriptionCompleted(t)
     /\ (Emitted(CreateQuick) \/ Emitted(CreateFull)) => DeferredCreate
     /\ Count(sent', IsSetAudio) = Count(sent', IsCreate) + Count(timers', IsCreateTimer)
    ]_vars

C9_Witness ==
  /\ events = "conversation.item.input_audio_transcription.completed"
  /\ isConnected
  /\ agentState = "listening"
  /\ sent = <<Configure, SetAudio, CreateQuick, SetText>>
  /\ timers = <<>>
  /\ interrupting = 0

\* C10: a cached transcript is never removed or emptied; a transcript event
\* without text or without item id leaves the cache as it is; one with text
\* sets the entry of its item to that text and leaves the other entries.
C10_CacheMonotonic ==
  [][/\ \A id \in ItemIds :
          transcriptCache[id] # NoTranscript => transcriptCache'[id] # NoTranscript
     /\ \A id \in ItemIds \cup {""} :
          OutputTranscriptDone(id, <<>>) => transcriptCache' = transcriptCache
     /\ \A id \in ItemIds, t \in OutputTranscripts \ {<<>>} :
          OutputTranscriptDone(id, t) =>
            /\ transcriptCache'[id] = t
            /\ \A o \in ItemIds \ {id} : transcriptCache'[o] = transcriptCache[o]
    ]_vars

C10_Witness ==
  /\ events = "response.output_audio_transcript.done"
  /\ transcriptCache["item1"] = <<"t">>
  /\ transcriptCache["item2"] = <<"x">>

\* C11: for a turn id and a non-empty text T, handling an empty transcript
\* event and then one carrying T, or the two in the other order, leaves T in
\* the cache, whatever the cache held before.
C11_OrderIndependent ==
  \A id \in ItemIds : \A t \in OutputTranscripts \ {<<>>} :
    /\ CacheUpdate(CacheUpdate(transcriptCache, id, <<>>), id, t)[id] = t
    /\ CacheUpdate(CacheUpdate(transcriptCache, id, t), id, <<>>)[id] = t

C11_Witness ==
  /\ events = "response.output_audio_transcript.done"
  /\ transcriptCache["item1"] = <<"x">>
  /\ transcriptCache["item2"] = NoTranscript

\* C12: an error event of the transport, and an error of the session, of any
\* code, changes nothing but the event log: not the mode, the liveness flag,
\* the cache, the timers or the emitted commands.
C12_ErrorChangesNothing ==
  [][(\E code \in ErrorCodes : ErrorEvent(code) \/ SessionError(code))
     => UNCHANGED core]_vars

C12_Witness ==
  /\ events = "error"
  /\ agentState = "speaking"
  /\ isPlayingAudio
  /\ resp = "streaming"
  /\ transcriptCache["item1"] = <<"t">>

\* the newest commands are those of an interrupt of this connection whose
\* cancel-response found no response to cancel; no interrupt and no deferred
\* create-response is pending
CancelFoundNothing ==
  /\ Len(sent) >= 3
  /\ sent[Len(sent) - 2] # Configure
  /\ sent[Len(sent) - 1] = CancelResponse
  /\ sent[Len(sent)] = SetText
  /\ resp = "none"
  /\ interrupting = 0
  /\ \A k \in 1..Len(timers) : timers[k].kind # "create"

\* C13: an interrupt that acts sets the mode to listening and clears the
\* liveness flag; its continuation emits cancel-response and then
\* set-output-modality(text) whatever the remote side holds; and when the
\* "no active response" error that answers such a cancel is handled, the mode
\* is listening and the flag false.
C13_CancelRace ==
  [][/\ (InterruptButton /\ interrupting' = interrupting + 1)
          => (agentState' = "listening" /\ ~isPlayingAudio')
     /\ InterruptResume => sent' = sent \o <<CancelResponse, SetText>>
     /\ (ErrorEvent("response_cancel_not_active") /\ CancelFoundNothing)
          => (agentState' = "listening" /\ ~isPlayingAudio'
              /\ \E k \in 1..Len(sent') : sent'[k] = SetText)
    ]_vars

\* utterances that contain an interrupt phrase of the current settings
InterruptTranscripts ==
  {t \in Transcripts : interruptDetected(toLowerCase(t))}

\* C14: a transcript with an interrupt phrase handled while the mode is
\* generating or speaking runs the interrupt (mode listening, liveness flag
\* cleared, the continuation that emits the two commands pending) and
\* schedules and emits nothing of a trigger.
C14_InterruptPhraseWhileBusy ==
  [][(Busy(agentState) /\ \E t \in InterruptTranscripts : TranscriptionCompleted(t))
     => (/\ agentState' = "listening"
         /\ ~isPlayingAudio'
         /\ interrupting' = interrupting + 1
         /\ timers' = timers
         /\ ~Emitted(SetAudio))]_vars

\* utterances that contain both an interrupt phrase and a trigger phrase
BothTranscripts ==
  {t \in InterruptTranscripts :
     quickHintDetected(toLowerCase(t)) \/ fullGuidanceDetected(toLowerCase(t))}

\* C15: in every mode, a transcript with both an interrupt phrase and a
\* trigger phrase emits no create-response and schedules none.
C15_InterruptWinsOverTrigger ==
  [][(\E t \in BothTranscripts : TranscriptionCompleted(t))
     => (/\ Count(timers', IsCreateTimer) = Count(timers, IsCreateTimer)
         /\ ~Emitted(SetAudio)
         /\ ~Emitted(CreateQuick) /\ ~Emitted(CreateFull))]_vars

\* p occurs in s as a run of characters, upper and lower case taken as equal
ContainsNoCase(s, p) ==
  \E k \in 0..(Len(s) - Len(p)) :
    \A j \in 1..Len(p) : LowerChar(s[k + j]) = LowerChar(p[j])

\* C16: a transcript handled by a handler that sees the agent as not busy
\* schedules the short-hint response if it contains the short-hint phrase in
\* any case (also when it contains the full-guidance phrase too), the
\* full-guidance response if it contains that phrase only, and nothing
\* otherwise: never more than one response.
C16_TriggerDetection ==
  [][\A t \in Transcripts :
       (TranscriptionCompleted(t) /\ ~Busy(hAgentState)) =>
         LET q == ContainsNoCase(t, settings.quickHintPhrase)
             f == ContainsNoCase(t, settings.fullGuidancePhrase)
         IN  /\ q => timers' = Append(timers, CreateTimer(CreateQuick))
             /\ (~q /\ f) => timers' = Append(timers, CreateTimer(CreateFull))
             /\ (~q /\ ~f) => timers' = timers
    ]_vars

C16_Witness ==
  /\ events = "conversation.item.input_audio_transcription.completed"
  /\ settings = UpperSettings
  /\ sent = <<Configure, SetAudio, CreateFull, SetAudio>>
  /\ timers = <<CreateTimer(CreateQuick)>>

\* the newest emitted command is c
LastSent(c) == sent # <<>> /\ sent[Len(sent)] = c

\* C17: a step that moves the mode to generating emits
\* set-output-modality(audio), or that command is the newest one emitted; a
\* step that moves the mode to listening emits set-output-modality(text), or
\* that command is the newest one emitted.
C17_ModeModalityCoupling ==
  [][/\ (agentState # "generating" /\ agentState' = "generating")
          => (Emitted(SetAudio) \/ LastSent(SetAudio))
     /\ (agentState # "listening" /\ agentState' = "listening")
          => (Emitted(SetText) \/ LastSent(SetText))
    ]_vars

\* C18: a create-response command carries the last 3 entries of the rolling
\* window for a short hint and the whole window for full guidance.
C18_ContextWindow ==
  [][DeferredCreate =>
       \A k \in (Len(sent) + 1)..Len(sent') :
         /\ sent'[k] = CreateQuick
              => ContextOf(sent'[k]) = slice(conversationHistory, 3)
         /\ sent'[k] = CreateFull
              => ContextOf(sent'[k]) = conversationHistory
    ]_vars

\* C19: the rolling window never holds more than 10 entries; a history update
\* of one user utterance appends it, and on a window of 10 entries drops the
\* oldest; an update without a user text leaves the window as it is.
C19_WindowBounded ==
  [][/\ Len(conversationHistory') <= 10
     /\ \A role \in {"user", "assistant"}, text \in {<<>>, <<"x">>, <<"t">>} :
          HistoryUpdated(<<[itemId |-> IF role = "user" THEN "user1" ELSE "item1",
                            role |-> role,
                            type |-> IF role = "user" THEN "input_audio" ELSE "output_audio",
                            transcript |-> text]>>) =>
            conversationHistory' =
              IF role = "assistant" \/ text = <<>> THEN conversationHistory
              ELSE IF Len(conversationHistory) < 10
                   THEN Append(conversationHistory, text)
                   ELSE Append(Tail(conversationHistory), text)
    ]_vars

C19_Witness ==
  /\ Len(conversationHistory) = 10
  /\ conversationHistory[1] = <<"t">>
  /\ conversationHistory[9] = <<"t">>
  /\ conversationHistory[10] = <<"x">>

\* the utterances "got it", "stop" and "thanks"
DocumentedInterruptUtterances == {<<"g", "i">>} \cup ShortUtterances

\* C20: with the default settings, each of the utterances "got it", "thanks"
\* and "stop" handled while the mode is generating or speaking runs the
\* interrupt: mode listening, liveness flag cleared, continuation pending.
C20_DefaultInterruptPhrases ==
  [][(/\ settings = DEFAULT_SETTINGS
      /\ Busy(agentState)
      /\ \E t \in DocumentedInterruptUtterances : TranscriptionCompleted(t))
     => (/\ agentState' = "listening"
         /\ ~isPlayingAudio'
         /\ interrupting' = interrupting + 1)]_vars

(* ---------------------------------------------------------------------- *)
(* C21: while the connection status is disconnected, a call of             *)
(* triggerQuickHint, triggerFullGuidance or the manual interrupt emits no  *)
(* command, schedules no timer and changes no state.                       *)
(* ---------------------------------------------------------------------- *)
C21_EntryPointsNeedConnection ==
  [][(~isConnected /\ (triggerQuickHint \/ triggerFullGuidance \/ InterruptButton))
       => UNCHANGED vars]_vars

\* C21: a disconnected state in which the mode alone would admit a trigger
\* (listening) and commands of an earlier session are in the log
C21_Witness ==
  /\ ~isConnected
  /\ agentState = "listening"
  /\ \E k \in 1..Len(sent) : sent[k] = SetAudio

(* ---------------------------------------------------------------------- *)
(* C22: while the connection status is connected, no step changes the      *)
(* settings: every settings change happens while disconnected.             *)
(* ---------------------------------------------------------------------- *)
C22_SettingsLockedWhileConnected ==
  [][isConnected => settings' = settings]_vars

\* C22: a connected session running with settings that were changed before
C22_Witness ==
  /\ isConnected
  /\ settings # DEFAULT_SETTINGS
  /\ agentState = "generating"

(* ---------------------------------------------------------------------- *)
(* C23: the interrupt sequence is ordered. The step that accepts an        *)
(* interrupt clears the liveness flag and sets the mode to listening and   *)
(* emits nothing and leaves the playback sink as it is; the sink is        *)
(* stopped and the commands are emitted only by the continuation, which    *)
(* emits cancel-response directly followed by set-output-modality(text).   *)
(* So every cancel-response in the log is directly followed by the text    *)
(* command of the same interrupt.                                          *)
(* ---------------------------------------------------------------------- *)
C23_InterruptOrdered ==
  [][/\ interrupting' > interrupting
          => (~isPlayingAudio' /\ agentState' = "listening"
              /\ sent' = sent /\ player' = player)
     /\ (Emitted(CancelResponse) \/ interrupting' < interrupting)
          => (/\ interrupting' = interrupting - 1
              /\ sent' = sent \o <<CancelResponse, SetText>>
              /\ player' \in {0, player})
     /\ \A k \in 1..Len(sent') :
          sent'[k] = CancelResponse => (k < Len(sent') /\ sent'[k + 1] = SetText)
    ]_vars

\* C23: an interrupt accepted while speaking with queued audio has completed:
\* the sink is empty and the log ends with cancel-response, text
C23_Witness ==
  /\ interrupting = 0
  /\ agentState = "listening"
  /\ ~isPlayingAudio
  /\ player = 0
  /\ resp = "cancelled"
  /\ Len(sent) >= 2
  /\ sent[Len(sent) - 1] = CancelResponse
  /\ sent[Len(sent)] = SetText

(* ---------------------------------------------------------------------- *)
(* C24: interrupt() runs without suspension points: between the step that  *)
(* accepts an interrupt and the emission of its cancel-response and text   *)
(* commands no other handler runs, so while an accepted interrupt has not  *)
(* emitted its commands no step changes the mode, the liveness flag, the   *)
(* timers or the command log.                                              *)
(* ---------------------------------------------------------------------- *)
C24_InterruptAtomic ==
  [][interrupting > 0
       => \/ interrupting' = interrupting - 1
          \/ /\ agentState' = agentState
             /\ isPlayingAudio' = isPlayingAudio
             /\ timers' = timers
             /\ sent' = sent]_vars

(* ---------------------------------------------------------------------- *)
(* C25: a grace timer clears the liveness flag only for its own response.  *)
(* A finished response is gone from the remote side, so a grace timer that *)
(* fires while a response is streaming audio was left by an earlier        *)
(* response: it neither clears the flag nor moves the mode to listening.   *)
(* ---------------------------------------------------------------------- *)
C25_GraceTimerOfSameResponse ==
  [][(GraceExpired /\ resp = "streaming")
       => (isPlayingAudio' = isPlayingAudio /\ agentState' = agentState)]_vars

(* ---------------------------------------------------------------------- *)
(* C26: the mode leaves listening only through an accepted trigger: a     *)
(* response-started event or an audio fragment handled in mode listening   *)
(* leaves the mode listening.                                              *)
(* ---------------------------------------------------------------------- *)
C26_ListeningLeftOnlyByTrigger ==
  [][(agentState = "listening"
        /\ (ResponseCreated \/ \E audioData \in AudioData : AudioDelta(audioData)))
       => agentState' = "listening"]_vars

(* ---------------------------------------------------------------------- *)
(* C27: when response-finished is handled in mode speaking or generating,  *)
(* that step emits set-output-modality(text) and sets the mode to          *)
(* listening, and leaves the liveness flag as it is (it is cleared only    *)
(* when the grace interval has elapsed).                                   *)
(* ---------------------------------------------------------------------- *)
C27_FinishedStepEntersListening ==
  [][(ResponseDone /\ Busy(agentState))
       => (/\ Emitted(SetText)
           /\ agentState' = "listening"
           /\ isPlayingAudio' = isPlayingAudio)]_vars

(* ---------------------------------------------------------------------- *)
(* C28: a speech-start event handled while the liveness flag is true or    *)
(* the mode is generating or speaking runs the interrupt (flag cleared,    *)
(* mode listening, the continuation that emits the commands pending); a    *)
(* speech-start event handled with the flag false and the mode not         *)
(* generating or speaking changes nothing.                                 *)
(* ---------------------------------------------------------------------- *)
C28_BargeInCondition ==
  [][SpeechStarted
       => IF isPlayingAudio \/ Busy(agentState)
          THEN /\ agentState' = "listening"
               /\ ~isPlayingAudio'
               /\ interrupting' = interrupting + 1
          ELSE UNCHANGED core]_vars

(* ---------------------------------------------------------------------- *)
(* C29: a transcript with an interrupt phrase, or a manual interrupt,      *)
(* handled while the mode is listening emits no command (no                *)
(* cancel-response, no set-output-modality) and changes no state.          *)
(* ---------------------------------------------------------------------- *)
C29_InterruptIgnoredInListening ==
  [][(agentState = "listening"
        /\ (InterruptButton \/ \E t \in InterruptTranscripts : TranscriptionCompleted(t)))
       => (sent' = sent /\ UNCHANGED core)]_vars

(* ---------------------------------------------------------------------- *)
(* C30: an audio fragment handled in mode generating (the first of its     *)
(* response) or in mode speaking (a later one) leaves the mode speaking    *)
(* and the liveness flag true in that step, and a fragment that carries    *)
(* audio data is handed to the playback sink.                              *)
(* ---------------------------------------------------------------------- *)
C30_AudioFragment ==
  [][\A audioData \in AudioData :
       (AudioDelta(audioData) /\ Busy(agentState))
         => (/\ agentState' = "speaking"
             /\ isPlayingAudio'
             /\ audioData # "" => player' = player + 1)]_vars

\* C30: a first and a later fragment of a streaming response were handled
C30_Witness ==
  /\ agentState = "speaking"
  /\ isPlayingAudio
  /\ resp = "streaming"
  /\ player = 2
  /\ events = "response.output_audio.delta"

(* ---------------------------------------------------------------------- *)
(* C31: transcript resolution for display. After a history update the      *)
(* displayed list holds, in order, one entry for every turn that resolves  *)
(* to a text: the transcript the item carries if it is non-empty,          *)
(* otherwise the non-empty transcript cached for the turn identifier. A    *)
(* cached transcript is never lost, so a turn that was cached is displayed *)
(* in every later update even when its item carries no transcript.         *)
(* ---------------------------------------------------------------------- *)
ResolvedText(item) ==
  IF item.transcript # <<>> THEN item.transcript
  ELSE IF item.itemId \in ItemIds THEN transcriptCache[item.itemId]
       ELSE <<>>

HasResolvedText(item) == ResolvedText(item) # <<>>

DisplayedFor(history) ==
  LET shown == SelectSeq(history, HasResolvedText)
  IN [k \in 1..Len(shown) |->
        [id |-> shown[k].itemId, role |-> shown[k].role, text |-> ResolvedText(shown[k])]]

C31_DisplayResolution ==
  [][/\ \A h \in HistoriesOf(DisplayItems, MaxItems) \ {<<>>} :
          HistoryUpdated(h) => transcripts' = DisplayedFor(h)
     /\ \A id \in ItemIds :
          transcriptCache[id] # NoTranscript => transcriptCache'[id] # NoTranscript
    ]_vars

\* C31: a turn is displayed with the text <<"x">>, which no history item
\* carries: it was resolved from the cache
C31_Witness ==
  \E k \in 1..Len(transcripts) :
    /\ transcripts[k].id \in ItemIds
    /\ transcripts[k].role = "assistant"
    /\ transcripts[k].text = <<"x">>
    /\ transcriptCache[transcripts[k].id] = <<"x">>

ContainsConfiguredPhrase(t) ==
  \E p \in {settings.quickHintPhrase, settings.fullGuidancePhrase} :
    p # <<>> /\ includes(toLowerCase(t), toLowerCase(p))

C33_EmptyPhraseNeverFires ==
  [][\A t \in Transcripts :
       (TranscriptionCompleted(t) /\ Emitted(SetAudio)) => ContainsConfiguredPhrase(t)]_vars

(* ---------------------------------------------------------------------- *)
(* C34: the guards evaluated inside the transport event handler (the busy  *)
(* guard on voice triggers, the mode test for interrupt phrases, the       *)
(* barge-in test, the connected guard of the interrupt it calls) see the   *)
(* current mode and connection status: when a speech-start or a            *)
(* transcription event is handled, the values the handler reads decide     *)
(* the guards as the current values do.                                    *)
(* ---------------------------------------------------------------------- *)
C34_HandlerSeesCurrentState ==
  [][/\ (SpeechStarted \/ \E t \in Transcripts \ {<<>>} : TranscriptionCompleted(t))
          => (Busy(hAgentState) <=> Busy(agentState))
     /\ (SpeechStarted /\ BargeInTest)
          => (hIsConnected <=> isConnected)
    ]_vars

(* ---------------------------------------------------------------------- *)
(* C35: after an interrupt has emitted its cancel-response and until the   *)
(* next create-response command is emitted, no step enqueues an audio      *)
(* fragment to the playback sink and the liveness flag stays false.        *)
(* ---------------------------------------------------------------------- *)
InterruptedSince(log) ==
  \E k \in 1..Len(log) :
    /\ log[k] = CancelResponse
    /\ \A j \in (k + 1)..Len(log) : ~IsCreate(log[j])

C35_NoAudioAfterInterrupt ==
  [][(InterruptedSince(sent) /\ InterruptedSince(sent'))
       => (player' <= player /\ ~isPlayingAudio')]_vars

(* ---------------------------------------------------------------------- *)
(* C36: in every reachable state, mode speaking implies that the playback  *)
(* liveness flag is true.                                                  *)
(* ---------------------------------------------------------------------- *)
C36_SpeakingImpliesFlag ==
  agentState = "speaking" => isPlayingAudio

\* C36: the mode is speaking after the response has finished and while its
\* grace timer is pending
C36_Witness ==
  /\ agentState = "speaking"
  /\ isPlayingAudio
  /\ resp = "none"
  /\ \E k \in 1..Len(timers) : timers[k].kind = "grace"

(* ---------------------------------------------------------------------- *)
(* C37: a disconnect destroys the session state: after it the mode is not  *)
(* generating or speaking, the liveness flag is false and no deferred      *)
(* create-response or grace timer is left to fire.                         *)
(* ---------------------------------------------------------------------- *)
C37_DisconnectResets ==
  [][Disconnect
       => (~Busy(agentState') /\ ~isPlayingAudio' /\ timers' = <<>>)]_vars

(* ---------------------------------------------------------------------- *)
(* C38: a resolved user utterance occupies at most one slot of the rolling *)
(* context window: a history update that contains a user turn which the    *)
(* previous update already contained, with the same text, does not append  *)
(* the text again.                                                         *)
(* ---------------------------------------------------------------------- *)
AlreadySeen(item) ==
  \E k \in 1..Len(transcripts) :
    /\ transcripts[k].id = item.itemId
    /\ transcripts[k].role = "user"
    /\ transcripts[k].text = item.transcript

C38_OneSlotPerUtterance ==
  [][\A i \in UserItems :
       (HistoryUpdated(<<i>>) /\ AlreadySeen(i))
         => conversationHistory' = conversationHistory]_vars

====
